---- MODULE Spec2Model ----
(***************************************************************************)
(* A model of the pandoc helper scripts:                                   *)
(*   md_to_pandoc_ast.py   the command-line converter (main and            *)
(*                         convert_markdown_to_ast),                       *)
(*   scripts/span_test.py  the comparison script built on                  *)
(*                         add_spans_to_json,                              *)
(*   test_spans.py         the comparison script built on                  *)
(*                         modify_json_add_spans.                          *)
(* One run of the model is one run of one of the three scripts.            *)
(***************************************************************************)
EXTENDS Naturals, Sequences, FiniteSets, TLC

(***************************************************************************)
(* JSON values as Python holds them after json.loads: a dict (ordered keys *)
(* and their values), a list, or a scalar.  Every value is a record with   *)
(* the same four fields so that any two values can be compared.  Numbers   *)
(* are scalars written as numerals: the scripts never look inside a        *)
(* scalar.                                                                 *)
(***************************************************************************)
Dict(keys, vals) == [ty |-> "dict", keys |-> keys, vals |-> vals, s |-> ""]

List(vals) == [ty |-> "list", keys |-> <<>>, vals |-> vals, s |-> ""]

Scalar(s) == [ty |-> "scalar", keys |-> <<>>, vals |-> <<>>, s |-> s]

None == [ty |-> "none", keys |-> <<>>, vals |-> <<>>, s |-> ""]

isinstance(v, ty) == v.ty = ty

\* key in d
HasKey(d, key) == \E i \in 1..Len(d.keys) : d.keys[i] = key

\* d.get(key): the value stored under key, None when the key is absent
Get(d, key) ==
    IF HasKey(d, key)
    THEN d.vals[CHOOSE i \in 1..Len(d.keys) : d.keys[i] = key]
    ELSE None

\* d[key] = v on an existing key
Put(d, key, v) ==
    [d EXCEPT !.vals = [i \in 1..Len(d.keys) |->
                           IF d.keys[i] = key THEN v ELSE d.vals[i]]]

RECURSIVE Concat(_)
\* the concatenation of a sequence of sequences
Concat(ss) == IF ss = <<>> THEN <<>> ELSE Head(ss) \o Concat(Tail(ss))

(***************************************************************************)
(* The nodes pandoc emits (pandoc's JSON encoding of its AST).             *)
(***************************************************************************)
Node(t, c) == Dict(<<"t", "c">>, <<Scalar(t), c>>)

Leaf(t) == Dict(<<"t">>, <<Scalar(t)>>)

Str(s) == Node("Str", Scalar(s))

Space == Leaf("Space")

LineBreak == Leaf("LineBreak")

Emph(inlines) == Node("Emph", List(inlines))

Plain(inlines) == Node("Plain", List(inlines))

\* a level-one heading with an identifier and no classes or attributes
Header(inlines) ==
    Node("Header", List(<<Scalar("1"),
                          List(<<Scalar("h"), List(<<>>), List(<<>>)>>),
                          List(inlines)>>))

\* items: a sequence of items, each a sequence of blocks
BulletList(items) == Node("BulletList", List([i \in 1..Len(items) |-> List(items[i])]))

OrderedList(items) ==
    Node("OrderedList",
         List(<<List(<<Scalar("1"), Leaf("Decimal"), Leaf("Period")>>),
                List([i \in 1..Len(items) |-> List(items[i])])>>))

Document(blocks) ==
    Dict(<<"pandoc-api-version", "meta", "blocks">>,
         <<List(<<Scalar("1"), Scalar("23"), Scalar("1")>>),
           Dict(<<>>, <<>>),
           List(blocks)>>)

(***************************************************************************)
(* The documents the converter may emit.  Inline sequences and block       *)
(* shapes are listed; MaxBlocks bounds the number of top-level blocks.     *)
(***************************************************************************)
MaxBlocks == 2

RunEmpty == <<>>

RunText == <<Str("a"), Space, Str("b")>>

RunBreak == <<Str("a"), LineBreak, Str("b")>>

RunEmph == <<Emph(<<Str("a"), Space>>), Str("b")>>

Runs == {RunEmpty, RunText, RunBreak, RunEmph}

LeafBlocks == {Plain(r) : r \in Runs} \cup {Header(RunText)}

\* a list with one item holding one Plain block
FlatLists == {BulletList(<<<<Plain(RunText)>>>>), OrderedList(<<<<Plain(RunText)>>>>)}

\* the shape of "- a\n  - b\n- c": a list whose first item holds a list
NestedLists ==
    UNION {{BulletList(<<<<Plain(RunText), l>>, <<Plain(<<Str("b")>>)>>>>),
            OrderedList(<<<<Plain(RunText), l>>, <<Plain(<<Str("b")>>)>>>>)} :
             l \in FlatLists}

Blocks == LeafBlocks \cup FlatLists \cup NestedLists

BlockSeqs == UNION {[1..n -> Blocks] : n \in 0..MaxBlocks}

Documents == {Document(bs) : bs \in BlockSeqs}

(***************************************************************************)
(* json.dumps and json.loads.  A JSON text is the sequence of its tokens   *)
(* (separators and white space left out, so pretty and compact texts of    *)
(* one value hold the same tokens); loads is a recursive-descent parse of  *)
(* that sequence and fails on a sequence that is not one complete value.   *)
(***************************************************************************)
Tok(k, s) == [k |-> k, s |-> s]

RECURSIVE dumps(_)
dumps(v) ==
    IF isinstance(v, "dict")
    THEN <<Tok("{", "")>>
         \o Concat([i \in 1..Len(v.keys) |->
                       <<Tok("key", v.keys[i])>> \o dumps(v.vals[i])])
         \o <<Tok("}", "")>>
    ELSE IF isinstance(v, "list")
    THEN <<Tok("[", "")>>
         \o Concat([i \in 1..Len(v.vals) |-> dumps(v.vals[i])])
         \o <<Tok("]", "")>>
    ELSE <<Tok("scalar", v.s)>>

ParseFail == [ok |-> FALSE, v |-> None, next |-> 0]

RECURSIVE ParseValue(_, _), ParseElems(_, _, _), ParseMembers(_, _, _, _)
\* the value that starts at toks[i], and the position after it
ParseValue(toks, i) ==
    IF i > Len(toks) THEN ParseFail
    ELSE IF toks[i].k = "scalar"
    THEN [ok |-> TRUE, v |-> Scalar(toks[i].s), next |-> i + 1]
    ELSE IF toks[i].k = "[" THEN ParseElems(toks, i + 1, <<>>)
    ELSE IF toks[i].k = "{" THEN ParseMembers(toks, i + 1, <<>>, <<>>)
    ELSE ParseFail

ParseElems(toks, i, acc) ==
    IF i > Len(toks) THEN ParseFail
    ELSE IF toks[i].k = "]"
    THEN [ok |-> TRUE, v |-> List(acc), next |-> i + 1]
    ELSE LET r == ParseValue(toks, i)
         IN  IF r.ok THEN ParseElems(toks, r.next, Append(acc, r.v))
             ELSE ParseFail

ParseMembers(toks, i, keys, vals) ==
    IF i > Len(toks) THEN ParseFail
    ELSE IF toks[i].k = "}"
    THEN [ok |-> TRUE, v |-> Dict(keys, vals), next |-> i + 1]
    ELSE IF toks[i].k = "key"
    THEN LET r == ParseValue(toks, i + 1)
         IN  IF r.ok
             THEN ParseMembers(toks, r.next, Append(keys, toks[i].s),
                               Append(vals, r.v))
             ELSE ParseFail
    ELSE ParseFail

\* json.loads raises JSONDecodeError exactly when IsJson is false
IsJson(toks) ==
    LET r == ParseValue(toks, 1) IN r.ok /\ r.next = Len(toks) + 1

loads(toks) == ParseValue(toks, 1).v

(***************************************************************************)
(* scripts/span_test.py: add_spans_to_json                                 *)
(***************************************************************************)
EmptyAttrs ==
    Dict(<<"t", "classes", "attributes">>,
         <<Scalar(""), List(<<>>), List(<<>>)>>)

\* a wrapper built without the content it is to hold
Span_without_content(content) == Node("Span", List(<<EmptyAttrs, List(<<>>)>>))

\* the wrapper both scripts build: {"t": "Span", "c": [attrs, content]}
Span(content) == Node("Span", List(<<EmptyAttrs, content>>))

IsStrOrSpace(item) ==
    /\ isinstance(item, "dict")
    /\ Get(item, "t") \in {Scalar("Str"), Scalar("Space")}

RECURSIVE add_spans_to_json(_)
\* the value add_spans_to_json returns
add_spans_to_json(json_data) ==
    IF isinstance(json_data, "dict")
    THEN IF Get(json_data, "t") = Scalar("Str")
         THEN json_data
         ELSE [json_data EXCEPT !.vals =
                  [i \in 1..Len(json_data.vals) |->
                      add_spans_to_json(json_data.vals[i])]]
    ELSE IF isinstance(json_data, "list")
    THEN IF \A i \in 1..Len(json_data.vals) : IsStrOrSpace(json_data.vals[i])
         THEN List(<<Span(json_data)>>)
         ELSE List([i \in 1..Len(json_data.vals) |->
                       add_spans_to_json(json_data.vals[i])])
    ELSE json_data

RECURSIVE add_spans_in_place(_)
\* What the object passed to add_spans_to_json holds after the call: a dict
\* is assigned its new values key by key, a list is left holding the same
\* element objects (the call returns a new list), which the call has walked.
add_spans_in_place(json_data) ==
    IF isinstance(json_data, "dict")
    THEN add_spans_to_json(json_data)
    ELSE IF isinstance(json_data, "list")
    THEN IF \A i \in 1..Len(json_data.vals) : IsStrOrSpace(json_data.vals[i])
         THEN json_data
         ELSE List([i \in 1..Len(json_data.vals) |->
                       add_spans_in_place(json_data.vals[i])])
    ELSE json_data

(***************************************************************************)
(* test_spans.py: modify_json_add_spans and its process_node               *)
(***************************************************************************)
RECURSIVE process_node(_)
process_node(node) ==
    IF ~isinstance(node, "dict") THEN node
    ELSE IF Get(node, "t") = Scalar("Plain") /\ HasKey(node, "c")
    THEN Put(node, "c", List(<<Span(Get(node, "c"))>>))
    ELSE LET sub(subitem) ==
                 IF isinstance(subitem, "dict") THEN process_node(subitem)
                 ELSE subitem
             elem(item) ==
                 IF isinstance(item, "dict") THEN process_node(item)
                 ELSE IF isinstance(item, "list")
                 THEN List([j \in 1..Len(item.vals) |-> sub(item.vals[j])])
                 ELSE item
             val(v) ==
                 IF isinstance(v, "dict") THEN process_node(v)
                 ELSE IF isinstance(v, "list")
                 THEN List([j \in 1..Len(v.vals) |-> elem(v.vals[j])])
                 ELSE v
         IN  [node EXCEPT !.vals =
                 [i \in 1..Len(node.vals) |-> val(node.vals[i])]]

\* result = json.loads(json.dumps(data)); every block of result is processed
modify_json_add_spans(data) ==
    LET result == loads(dumps(data))
        blocks == Get(result, "blocks")
    IN  Put(result, "blocks",
            List([i \in 1..Len(blocks.vals) |-> process_node(blocks.vals[i])]))

\* what the object passed to modify_json_add_spans holds after the call
modify_json_arg_after(data) == data

(***************************************************************************)
(* The state of one run.                                                   *)
(***************************************************************************)
VARIABLES
    script,             \* which script runs
    pc,                 \* the position of its main()
    exit_status,        \* the process exit status, read when pc = "exit"
    \* --- the two comparison scripts ---
    tree,               \* the tree the converter emits for the test input
    json_data,          \* the loaded tree object (json_data / data)
    modified_data,      \* the transform's result (modified_json_data / with_spans)
    original_json_file, \* original.json / test.json, as JSON text
    modified_json_file, \* modified.json / with_spans.json, as JSON text
    original_md,        \* the Markdown rendering reported as original
    modified_md,
    original_html,      \* the HTML rendering reported as original
    modified_html,
    \* --- md_to_pandoc_ast.py ---
    args,               \* the parsed command line
    stdin_isatty,
    stdin_consumed,     \* sys.stdin.read() has been called
    markdown_text,      \* main's markdown_text
    temp_md_exists,     \* the file NamedTemporaryFile created is on disk
    stdout,
    stderr,
    output_file,        \* what has been written to the -o file
    failure             \* the error the run has met, "none" so far

cmp_vars == <<tree, json_data, modified_data, original_json_file,
              modified_json_file, original_md, modified_md, original_html,
              modified_html>>

cli_vars == <<args, stdin_isatty, stdin_consumed, markdown_text,
              temp_md_exists, stdout, stderr, output_file, failure>>

vars == <<script, pc, exit_status, cmp_vars, cli_vars>>

\* an optional command-line value: absent (None), or a string
NoneArg == [given |-> FALSE, val |-> ""]

Arg(val) == [given |-> TRUE, val |-> val]

\* Python truth of an optional string: None and "" are false
Truthy(a) == a.given /\ a.val # ""

\* a text that cannot be encoded as UTF-8 (a lone surrogate, which a
\* command-line argument holding the byte 0xFF decodes to)
Unencodable == "<U+DCFF>"

Texts == {"", "# Hello World", Unencodable}

StdinText == "- a"

\* what the converter writes to its output for the command-line script
ConverterOutputs ==
    {dumps(Document(<<>>)), dumps(Document(<<Header(<<Str("Hello"), Space, Str("World")>>)>>)),
     <<Tok("{", "")>>, <<>>}

ConverterDiagnostic == "pandoc: parse error"

NoFile == <<>>

\* the converter is a function of its input: a rendering is known by the
\* format and the tree it was made from
NoRendering == [fmt |-> "", from |-> None]

Render(fmt, text) == [fmt |-> fmt, from |-> loads(text)]

Init ==
    /\ script \in {"md_to_pandoc_ast", "span_test", "test_spans"}
    /\ pc = "start"
    /\ exit_status = 0
    /\ IF script = "md_to_pandoc_ast"
       THEN /\ tree = None
            /\ args \in [file : {NoneArg, Arg(""), Arg("in.md")},
                         markdown_text : {NoneArg} \cup {Arg(t) : t \in Texts},
                         output : {NoneArg, Arg("out.json")},
                         pretty : BOOLEAN]
            /\ stdin_isatty \in BOOLEAN
       ELSE /\ tree \in Documents
            /\ args = [file |-> NoneArg, markdown_text |-> NoneArg,
                       output |-> NoneArg, pretty |-> TRUE]
            /\ stdin_isatty = TRUE
    /\ json_data = None
    /\ modified_data = None
    /\ original_json_file = NoFile
    /\ modified_json_file = NoFile
    /\ original_md = NoRendering
    /\ modified_md = NoRendering
    /\ original_html = NoRendering
    /\ modified_html = NoRendering
    /\ stdin_consumed = FALSE
    /\ markdown_text = NoneArg
    /\ temp_md_exists = FALSE
    /\ stdout = <<>>
    /\ stderr = <<>>
    /\ output_file = NoFile
    /\ failure = "none"

(***************************************************************************)
(* md_to_pandoc_ast.py                                                     *)
(***************************************************************************)
\* the handler without its sys.exit(1): the process ends with status 0
main_except_no_exit(kind, text, detail) ==
    /\ failure' = kind
    /\ stderr' = Append(stderr, [text |-> text, detail |-> detail])
    /\ exit_status' = 0
    /\ pc' = "exit"

\* sys.stderr.write(...); sys.exit(1)
main_except(kind, text, detail) ==
    /\ failure' = kind
    /\ stderr' = Append(stderr, [text |-> text, detail |-> detail])
    /\ exit_status' = 1
    /\ pc' = "exit"

\* main, "Determine input source": file, then argument, then stdin
main_input ==
    /\ script = "md_to_pandoc_ast"
    /\ pc = "start"
    /\ IF Truthy(args.file)
       THEN \/ /\ main_except("file_unreadable", "Error reading file", args.file.val)
               /\ UNCHANGED <<markdown_text, stdin_consumed, stdout>>
            \/ /\ \E content \in Texts : markdown_text' = Arg(content)
               /\ pc' = "convert"
               /\ UNCHANGED <<stdin_consumed, stdout, stderr, exit_status, failure>>
       ELSE IF Truthy(args.markdown_text)
       THEN /\ markdown_text' = args.markdown_text
            /\ pc' = "convert"
            /\ UNCHANGED <<stdin_consumed, stdout, stderr, exit_status, failure>>
       ELSE IF ~stdin_isatty
       THEN /\ markdown_text' = Arg(StdinText)
            /\ stdin_consumed' = TRUE
            /\ pc' = "convert"
            /\ UNCHANGED <<stdout, stderr, exit_status, failure>>
       ELSE /\ stdout' = Append(stdout, [kind |-> "help", pretty |-> FALSE, text |-> <<>>])
            /\ exit_status' = 1
            /\ pc' = "exit"
            /\ UNCHANGED <<markdown_text, stdin_consumed, stderr, failure>>
    /\ UNCHANGED <<script, cmp_vars, args, stdin_isatty, temp_md_exists, output_file>>

\* convert_markdown_to_ast, the with block: the temporary file is created
\* (delete=False) and the text written; a failed write leaves the with block
\* by the exception, which main's handler catches
convert_write_temp ==
    /\ script = "md_to_pandoc_ast"
    /\ pc = "convert"
    /\ temp_md_exists' = TRUE
    /\ \/ /\ markdown_text.val # Unencodable
          /\ pc' = "pandoc"
          /\ UNCHANGED <<stderr, exit_status, failure>>
       \/ /\ markdown_text.val = Unencodable
          /\ main_except("temp_write", "Error: ", "'utf-8' codec can't encode")
       \/ main_except("temp_write", "Error: ", "No space left on device")
    /\ UNCHANGED <<script, cmp_vars, args, stdin_isatty, stdin_consumed,
                   markdown_text, stdout, output_file>>

\* convert_markdown_to_ast, the try statement with its handlers and its
\* finally clause, then main's output or main's handler
convert_run_pandoc ==
    /\ script = "md_to_pandoc_ast"
    /\ pc = "pandoc"
    /\ temp_md_exists' = FALSE
    /\ \/ /\ main_except("converter_missing", "Error: ", "No such file or directory: 'pandoc'")
          /\ UNCHANGED <<stdout, output_file>>
       \/ /\ main_except("converter_failed", "Error: Pandoc conversion failed: ",
                         ConverterDiagnostic)
          /\ UNCHANGED <<stdout, output_file>>
       \/ \E out \in ConverterOutputs :
            IF ~IsJson(out)
            THEN /\ main_except("bad_json", "Error: ", "Failed to parse Pandoc output as JSON")
                 /\ UNCHANGED <<stdout, output_file>>
            ELSE LET ast_json == [kind |-> "ast", pretty |-> args.pretty,
                                  text |-> dumps(loads(out))]
                 IN  IF Truthy(args.output)
                     THEN \/ /\ output_file' = ast_json.text
                             /\ pc' = "exit"
                             /\ UNCHANGED <<stdout, stderr, exit_status, failure>>
                          \/ /\ main_except("output_unwritable", "Error: ", "Permission denied")
                             /\ UNCHANGED <<stdout, output_file>>
                     ELSE /\ stdout' = Append(stdout, ast_json)
                          /\ pc' = "exit"
                          /\ UNCHANGED <<output_file, stderr, exit_status, failure>>
    /\ UNCHANGED <<script, cmp_vars, args, stdin_isatty, stdin_consumed,
                   markdown_text>>

(***************************************************************************)
(* The comparison scripts.  Each call of the converter may fail (a         *)
(* non-zero exit), which ends the script: run_pandoc raises, run_command   *)
(* calls exit(1).                                                          *)
(***************************************************************************)
converter_fails ==
    /\ pc' = "exit"
    /\ exit_status' = 1

\* span_test.py main: convert the test file to JSON and load it
span_test_load ==
    /\ script = "span_test"
    /\ pc = "start"
    /\ \/ /\ json_data' = loads(dumps(tree))
          /\ pc' = "loaded"
          /\ UNCHANGED exit_status
       \/ /\ converter_fails
          /\ UNCHANGED json_data
    /\ UNCHANGED <<script, tree, modified_data, original_json_file,
                   modified_json_file, original_md, modified_md,
                   original_html, modified_html, cli_vars>>

\* span_test.py main: "Save original JSON"
span_test_save_original ==
    /\ script = "span_test"
    /\ pc = "loaded"
    /\ original_json_file' = dumps(json_data)
    /\ pc' = "saved"
    /\ UNCHANGED <<script, exit_status, tree, json_data, modified_data,
                   modified_json_file, original_md, modified_md,
                   original_html, modified_html, cli_vars>>

\* the same step with the original JSON saved after the call, not before it
span_test_add_spans_then_save ==
    /\ script = "span_test"
    /\ pc = "saved"
    /\ modified_data' = add_spans_to_json(json_data)
    /\ json_data' = add_spans_in_place(json_data)
    /\ original_json_file' = dumps(add_spans_in_place(json_data))
    /\ modified_json_file' = dumps(add_spans_to_json(json_data))
    /\ pc' = "modified"
    /\ UNCHANGED <<script, exit_status, tree, original_md, modified_md,
                   original_html, modified_html, cli_vars>>

\* span_test.py main: "Create modified JSON with spans"; the call changes
\* the object json_data names as well
span_test_add_spans ==
    /\ script = "span_test"
    /\ pc = "saved"
    /\ modified_data' = add_spans_to_json(json_data)
    /\ json_data' = add_spans_in_place(json_data)
    /\ modified_json_file' = dumps(add_spans_to_json(json_data))
    /\ pc' = "modified"
    /\ UNCHANGED <<script, exit_status, tree, original_json_file, original_md,
                   modified_md, original_html, modified_html, cli_vars>>

\* span_test.py main: "Convert both back to markdown"
span_test_render_md ==
    /\ script = "span_test"
    /\ pc = "modified"
    /\ \/ /\ original_md' = Render("markdown", original_json_file)
          /\ modified_md' = Render("markdown", modified_json_file)
          /\ pc' = "compared"
          /\ UNCHANGED exit_status
       \/ /\ original_md' = Render("markdown", original_json_file)
          /\ converter_fails
          /\ UNCHANGED modified_md
       \/ /\ converter_fails
          /\ UNCHANGED <<original_md, modified_md>>
    /\ UNCHANGED <<script, tree, json_data, modified_data, original_json_file,
                   modified_json_file, original_html, modified_html, cli_vars>>

\* span_test.py main: "Also try HTML output"
span_test_render_html ==
    /\ script = "span_test"
    /\ pc = "compared"
    /\ \/ /\ original_html' = Render("html", original_json_file)
          /\ modified_html' = Render("html", modified_json_file)
          /\ pc' = "exit"
          /\ UNCHANGED exit_status
       \/ /\ original_html' = Render("html", original_json_file)
          /\ converter_fails
          /\ UNCHANGED modified_html
       \/ /\ converter_fails
          /\ UNCHANGED <<original_html, modified_html>>
    /\ UNCHANGED <<script, tree, json_data, modified_data, original_json_file,
                   modified_json_file, original_md, modified_md, cli_vars>>

\* test_spans.py main: the converter writes test.json, which is loaded
test_spans_load ==
    /\ script = "test_spans"
    /\ pc = "start"
    /\ \/ /\ original_json_file' = dumps(tree)
          /\ json_data' = loads(dumps(tree))
          /\ pc' = "loaded"
          /\ UNCHANGED exit_status
       \/ /\ converter_fails
          /\ UNCHANGED <<original_json_file, json_data>>
    /\ UNCHANGED <<script, tree, modified_data, modified_json_file,
                   original_md, modified_md, original_html, modified_html,
                   cli_vars>>

\* test_spans.py main: "Create a modified version with spans"
test_spans_modify ==
    /\ script = "test_spans"
    /\ pc = "loaded"
    /\ modified_data' = modify_json_add_spans(json_data)
    /\ json_data' = modify_json_arg_after(json_data)
    /\ modified_json_file' = dumps(modify_json_add_spans(json_data))
    /\ pc' = "modified"
    /\ UNCHANGED <<script, exit_status, tree, original_json_file, original_md,
                   modified_md, original_html, modified_html, cli_vars>>

\* test_spans.py main: "Convert both back to markdown"
test_spans_render_md ==
    /\ script = "test_spans"
    /\ pc = "modified"
    /\ \/ /\ original_md' = Render("markdown", original_json_file)
          /\ modified_md' = Render("markdown", modified_json_file)
          /\ pc' = "compared"
          /\ UNCHANGED exit_status
       \/ /\ original_md' = Render("markdown", original_json_file)
          /\ converter_fails
          /\ UNCHANGED modified_md
       \/ /\ converter_fails
          /\ UNCHANGED <<original_md, modified_md>>
    /\ UNCHANGED <<script, tree, json_data, modified_data, original_json_file,
                   modified_json_file, original_html, modified_html, cli_vars>>

\* test_spans.py main: "Also convert to HTML"
test_spans_render_html ==
    /\ script = "test_spans"
    /\ pc = "compared"
    /\ \/ /\ original_html' = Render("html", original_json_file)
          /\ modified_html' = Render("html", modified_json_file)
          /\ pc' = "exit"
          /\ UNCHANGED exit_status
       \/ /\ original_html' = Render("html", original_json_file)
          /\ converter_fails
          /\ UNCHANGED modified_html
       \/ /\ converter_fails
          /\ UNCHANGED <<original_html, modified_html>>
    /\ UNCHANGED <<script, tree, json_data, modified_data, original_json_file,
                   modified_json_file, original_md, modified_md, cli_vars>>

Next ==
    \/ main_input
    \/ convert_write_temp
    \/ convert_run_pandoc
    \/ span_test_load
    \/ span_test_save_original
    \/ span_test_add_spans
    \/ span_test_render_md
    \/ span_test_render_html
    \/ test_spans_load
    \/ test_spans_modify
    \/ test_spans_render_md
    \/ test_spans_render_html

Spec == Init /\ [][Next]_vars

(***************************************************************************)
(* Properties                                                              *)
(***************************************************************************)
IsToken(v) ==
    isinstance(v, "dict") /\ Get(v, "t") \in {Scalar("Str"), Scalar("Space")}

RECURSIVE Flatten(_)
\* the Str and Space nodes of a tree, depth first and left to right
Flatten(v) ==
    IF IsToken(v) THEN <<v>>
    ELSE Concat([i \in 1..Len(v.vals) |-> Flatten(v.vals[i])])

RECURSIVE HasBareToken(_)
\* some Str or Space node is reached without passing through a Span node
HasBareToken(v) ==
    IF IsToken(v) THEN TRUE
    ELSE IF isinstance(v, "dict") /\ Get(v, "t") = Scalar("Span") THEN FALSE
    ELSE \E i \in 1..Len(v.vals) : HasBareToken(v.vals[i])

IsWrapper(v) ==
    /\ isinstance(v, "dict")
    /\ Get(v, "t") = Scalar("Span")
    /\ isinstance(Get(v, "c"), "list")
    /\ Len(Get(v, "c").vals) = 2
    /\ Get(v, "c").vals[1] = EmptyAttrs

RECURSIVE Unwrap(_)
\* the tree with every wrapper replaced, in its sequence, by what it wraps
Unwrap(v) ==
    IF isinstance(v, "list")
    THEN List(Concat([i \in 1..Len(v.vals) |->
                         IF IsWrapper(v.vals[i])
                         THEN Get(v.vals[i], "c").vals[2].vals
                         ELSE <<Unwrap(v.vals[i])>>]))
    ELSE IF isinstance(v, "dict")
    THEN [v EXCEPT !.vals = [i \in 1..Len(v.vals) |-> Unwrap(v.vals[i])]]
    ELSE v

RECURSIVE WrapsExactlyMatching(_, _)
\* new is old with exactly the non-empty all-Str/Space sequences replaced by
\* a one-element sequence holding a wrapper of the sequence; every other
\* sequence keeps its length and every mapping its keys
WrapsExactlyMatching(old, new) ==
    IF isinstance(old, "list")
    THEN IF old.vals # <<>> /\ \A i \in 1..Len(old.vals) : IsToken(old.vals[i])
         THEN new = List(<<Span(old)>>)
         ELSE /\ isinstance(new, "list")
              /\ Len(new.vals) = Len(old.vals)
              /\ \A i \in 1..Len(old.vals) :
                     WrapsExactlyMatching(old.vals[i], new.vals[i])
    ELSE IF isinstance(old, "dict")
    THEN /\ isinstance(new, "dict")
         /\ new.keys = old.keys
         /\ \A i \in 1..Len(old.vals) :
                WrapsExactlyMatching(old.vals[i], new.vals[i])
    ELSE new = old

RECURSIVE WrapEveryPlain(_)
\* the tree with the content of every Plain node, at any depth, wrapped
WrapEveryPlain(v) ==
    IF isinstance(v, "dict") /\ Get(v, "t") = Scalar("Plain") /\ HasKey(v, "c")
    THEN Put(v, "c", List(<<Span(Get(v, "c"))>>))
    ELSE IF isinstance(v, "scalar") THEN v
    ELSE [v EXCEPT !.vals = [i \in 1..Len(v.vals) |-> WrapEveryPlain(v.vals[i])]]

Cli == script = "md_to_pandoc_ast"

\* convert_markdown_to_ast has been called and has returned or raised
ConvertLeft == Cli /\ markdown_text.given /\ pc = "exit"

\* the transform of a comparison script has run
Transformed == modified_data # None

HelpPrinted == \E i \in 1..Len(stdout) : stdout[i].kind = "help"

\* C1: on every exit path of convert_markdown_to_ast (normal return,
\* converter exits non-zero, converter cannot be started, output not valid
\* JSON, writing the text into the temporary file fails) the temporary file
\* the call created no longer exists when the call returns or raises.
C1_TempFileRemoved == ConvertLeft => ~temp_md_exists

\* C2: for both transforms, flattening the Str and Space nodes of the
\* transformed tree, depth first and left to right, yields the same sequence
\* of tokens as flattening the original tree.
C2_TokensPreserved == Transformed => Flatten(modified_data) = Flatten(tree)

C2_Witness ==
    /\ script = "span_test"
    /\ Transformed
    /\ modified_data # tree
    /\ Len(Flatten(tree)) > 3
    /\ Flatten(modified_data) = Flatten(tree)

\* C3: applying add_spans_to_json to a tree it has already transformed
\* leaves that tree unchanged.
C3_SecondPassChangesNothing ==
    (script = "span_test" /\ Transformed)
        => add_spans_to_json(modified_data) = modified_data

\* C4: after add_spans_to_json every maximal run of Str and Space nodes is
\* inside a Span wrapper, also when the run sits next to nodes of other kinds
\* in its sequence, and nothing outside the runs is altered (taking the
\* wrappers away gives the original tree back).
C4_EveryRunWrapped ==
    (script = "span_test" /\ Transformed)
        => ~HasBareToken(modified_data) /\ Unwrap(modified_data) = tree

\* C5: the result of either transform has a top-level blocks sequence of the
\* same length as the input's, each block keeping its position and its kind
\* tag; this includes the document with no blocks.
C5_BlocksPreserved ==
    Transformed =>
        LET old == Get(tree, "blocks").vals
            new == Get(modified_data, "blocks").vals
        IN  /\ Len(new) = Len(old)
            /\ \A i \in 1..Len(old) : Get(new[i], "t") = Get(old[i], "t")

\* C6: in the command-line script every failure ends the process with exit
\* status 1 after a diagnostic was written to the error stream; on a
\* converter or format failure nothing is written to standard output or to
\* the output file; a non-zero converter exit is reported with the
\* converter's own diagnostic text.
C6_FailuresExitOne ==
    (Cli /\ failure # "none") =>
        /\ pc = "exit"
        /\ exit_status = 1
        /\ stderr # <<>>
        /\ failure \in {"converter_missing", "converter_failed", "bad_json"}
              => stdout = <<>> /\ output_file = NoFile
        /\ failure = "converter_failed"
              => stderr[Len(stderr)].detail = ConverterDiagnostic

C6_Witness ==
    /\ Cli
    /\ failure = "converter_failed"
    /\ Truthy(args.output)
    /\ exit_status = 1
    /\ stderr # <<>>

\* C7: the command-line script takes its input from the file, else from the
\* positional argument, else from standard input: with no -f file and a
\* positional argument supplied (its text may be empty) the argument is what
\* is converted and standard input is not read; the usage help with exit
\* status 1 and no conversion happens exactly when neither a file nor a
\* positional argument is supplied and standard input is a terminal.
C7_InputPriority ==
    (Cli /\ pc # "start") =>
        /\ (~args.file.given /\ args.markdown_text.given)
              => markdown_text = args.markdown_text /\ ~stdin_consumed
        /\ HelpPrinted <=> /\ ~args.file.given
                           /\ ~args.markdown_text.given
                           /\ stdin_isatty
        /\ HelpPrinted => pc = "exit" /\ exit_status = 1 /\ ~markdown_text.given

\* C8: add_spans_to_json replaces a sequence by a one-element sequence
\* holding a Span wrapper of it exactly when the sequence is non-empty and
\* all its elements are Str or Space nodes; any other sequence, an empty one
\* in particular, keeps its length, and every mapping keeps its keys.
C8_WrapsExactlyMatching ==
    (script = "span_test" /\ Transformed)
        => WrapsExactlyMatching(tree, modified_data)

\* C9: modify_json_add_spans wraps the content of every Plain node under the
\* document's blocks, at any nesting depth of mappings and sequences, and
\* changes no other node.
C9_EveryPlainWrapped ==
    (script = "test_spans" /\ Transformed)
        => modified_data = WrapEveryPlain(tree)

\* C10: in both comparison scripts the rendering reported as original is
\* made from the tree exactly as the converter emitted it, never from a tree
\* with inserted wrappers, and modify_json_add_spans leaves its argument
\* unchanged.
C10_OriginalRenderedAsEmitted ==
    /\ original_md # NoRendering => original_md.from = tree
    /\ original_html # NoRendering => original_html.from = tree
    /\ (script = "test_spans" /\ Transformed) => json_data = tree

C10_Witness ==
    /\ script = "span_test"
    /\ original_md # NoRendering
    /\ original_html # NoRendering
    /\ json_data # tree
    /\ original_html.from = tree

====
